---- MODULE Spec2Model ----
(***************************************************************************)
(* Model of Equilibrate.py: the StarRatingSystem rating engine.            *)
(*                                                                         *)
(* Reals are fixed-point integers with SCALE units per 1.0 (a rating of    *)
(* 2.5 is 25000).  Every product rounds to the nearest unit, as the        *)
(* floating-point operations of the source round to the nearest float.     *)
(* Time is an integer number of clock units, UnitsPerDay to the day, so    *)
(* that an elapsed time has a whole-day part (timedelta.days) and a        *)
(* fractional part (total_seconds() / 86400).                              *)
(***************************************************************************)
EXTENDS Integers, Sequences, FiniteSets, TLC

VARIABLES
    cfg,            \* the constructor's arguments (self.base_change, ...)
    now,            \* the wall clock read by datetime.now(timezone.utc)
    ratings,        \* self.ratings: user -> rating
    meta,           \* self.meta: user -> counters, last_updated, history
    last_feedback,  \* self.last_feedback: <<rater, target>> -> timestamp
    appeal_log,     \* self.appeal_log
    call,           \* the last call made: its name, how it ended, and
                    \* how many records it added to the stores
    threads         \* the process_feedback calls running concurrently:
                    \* thread -> arguments, position and local variables

vars == <<cfg, now, ratings, meta, last_feedback, appeal_log, call, threads>>

----------------------------------------------------------------------------
(* Bounds of the model *)

MaxRecords == 2         \* history events and appeal records held, in all
MaxBulk == 2            \* longest list handed to bulk_process
LongGap == 2700         \* the longest absence before a call, in clock units
GridSteps == 20         \* steps of the grid of ratings laid over the range
MaxThreads == 2         \* process_feedback calls running concurrently

(* Units *)

Decimals == 4           \* the decimal places kept: round(change, 4)
SCALE == 10 ^ Decimals  \* fixed-point units per 1.0
UnitsPerDay == 2        \* clock units per day

(* Defaults of StarRatingSystem.__init__ *)

DefaultBaseChange == 600            \* 0.06
DefaultMinRating == 0               \* 0.0
DefaultMaxRating == 50000           \* 5.0
DefaultNeutralRating == 25000       \* 2.5
DefaultHalfLifeDays == 90
DefaultCooldownDays == 7
HistoryMaxLen == 500                \* deque(maxlen=500)

Users == {"alice", "bob"}
AppealTargets == {"bob"}
Reasons == {"unfair"}

DefaultConfig ==
    [base_change |-> DefaultBaseChange,
     min_rating |-> DefaultMinRating,
     max_rating |-> DefaultMaxRating,
     neutral |-> DefaultNeutralRating,
     decay_half_life_days |-> DefaultHalfLifeDays,
     cooldown_days |-> DefaultCooldownDays]

\* The configurations explored: the defaults, and the two extreme placements
\* of the neutral rating inside [min_rating, max_rating].
Configs ==
    {DefaultConfig,
     [DefaultConfig EXCEPT !.neutral = DefaultMaxRating],
     [DefaultConfig EXCEPT !.neutral = DefaultMinRating]}

----------------------------------------------------------------------------
(* Arithmetic *)

MaxOf(a, b) == IF a >= b THEN a ELSE b

MinOf(a, b) == IF a <= b THEN a ELSE b

\* n / d rounded to the nearest integer, symmetric in the sign of n (d > 0).
RoundDiv(n, d) ==
    IF n >= 0 THEN (2 * n + d) \div (2 * d)
              ELSE -((2 * (-n) + d) \div (2 * d))

\* The product of two fixed-point numbers.
MulFix(a, b) == RoundDiv(a * b, SCALE)

\* The quotient of two fixed-point numbers.
DivFix(a, b) == RoundDiv(a * SCALE, b)

RECURSIVE SqrtSearch(_, _, _)
\* The largest r in lo..hi with r * r <= n.
SqrtSearch(n, lo, hi) ==
    IF lo >= hi THEN lo
    ELSE LET mid == (lo + hi + 1) \div 2
         IN  IF mid * mid <= n THEN SqrtSearch(n, mid, hi)
                               ELSE SqrtSearch(n, lo, mid - 1)

\* math.sqrt of a fixed-point number in [0, 1], to the nearest unit.
SqrtFix(x) ==
    LET n == x * SCALE
        r == SqrtSearch(n, 0, SCALE)
    IN  IF (r + 1) * (r + 1) - n < n - r * r THEN r + 1 ELSE r

\* x * 2^(-q), for a fixed-point x in [0, 1]: nothing is left of it once
\* 2^q passes 2^28.
Halve(x, q) == IF q > 28 THEN 0 ELSE RoundDiv(x, 2 ^ q)

\* 2^(-f) for a fixed-point f in [0, 1): the Taylor polynomial of
\* exp(-f ln 2) to the fifth order (coefficients ln2^k / k!).
Exp2NegFrac(f) ==
    LET f2 == MulFix(f, f)
        f3 == MulFix(f2, f)
        f4 == MulFix(f3, f)
    IN  SCALE - MulFix(6931, f) + MulFix(2402, f2)
              - MulFix(555, f3) + MulFix(96, f4) - MulFix(13, MulFix(f4, f))

----------------------------------------------------------------------------
(* Timestamps: _now_iso writes the clock as an ISO string, and the readers *)
(* parse it back with datetime.fromisoformat.                              *)

IsoFormat(t) == [iso |-> t]

FromIsoFormat(s) == s.iso

\* timedelta.days of an elapsed time: the whole days in it.
WholeDays(elapsed) == elapsed \div UnitsPerDay

----------------------------------------------------------------------------
(* simple_rule_sentiment.  A text is None or a sequence of tokens; a word  *)
(* is "in" the text when it is a substring of one of its lowered tokens.   *)

POS_WORDS == {"good", "great", "awesome", "nice", "love", "excellent", "amazing",
              "like", "well", "fantastic", "brilliant", "happy", "recommend"}

NEG_WORDS == {"bad", "terrible", "hate", "awful", "worst", "dislike",
              "sucks", "stupid", "vulgar", "disgusting", "scam", "fraud"}

\* comment_text: None, or a string of tokens.
NoText == [kind |-> "None", toks |-> <<>>]

Str(toks) == [kind |-> "str", toks |-> toks]

\* The texts offered as comment_text.
Texts ==
    {NoText, Str(<<"Great">>), Str(<<"dislike", "awful">>)}

\* str.lower on the tokens used.
Lower(tok) == IF tok = "Great" THEN "great" ELSE tok

\* w in tok, for the tokens used: "dislike" holds "like".
IsSubstring(w, tok) == w = tok \/ (w = "like" /\ tok = "dislike")

WordIn(w, text_l) == \E i \in 1..Len(text_l) : IsSubstring(w, text_l[i])

simple_rule_sentiment(text) ==
    IF text.kind # "str" \/ text.toks = <<>> THEN "neutral"
    ELSE LET text_l == [i \in 1..Len(text.toks) |-> Lower(text.toks[i])]
             score == Cardinality({w \in POS_WORDS : WordIn(w, text_l)})
                      - Cardinality({w \in NEG_WORDS : WordIn(w, text_l)})
         IN  IF score > 0 THEN "positive"
             ELSE IF score < 0 THEN "negative"
             ELSE "neutral"

\* advanced_sentiment defaults to False: the rule-based fallback classifies.
sentiment_from_text(text) == simple_rule_sentiment(text)

----------------------------------------------------------------------------
(* Utility helpers *)

Stores(r, m, lf, al) ==
    [ratings |-> r, meta |-> m, last_feedback |-> lf, appeal_log |-> al]

get_rating(c, rs, user_id) ==
    IF user_id \in DOMAIN rs THEN rs[user_id] ELSE c.neutral

\* Mutant of Clamp: the upper bound is forgotten.
ClampNoUpper(c, val) == MaxOf(c.min_rating, val)

Clamp(c, val) == MaxOf(c.min_rating, MinOf(c.max_rating, val))

\* Mutant of CooldownOk: the elapsed time is compared without taking its days.
CooldownOkRawUnits(c, lf, t, target_user, rater_user) ==
    LET key == <<rater_user, target_user>>
    IN  IF key \notin DOMAIN lf THEN TRUE
        ELSE t - FromIsoFormat(lf[key]) >= c.cooldown_days

\* Mutant of CooldownOk: the key is looked up as (target, rater).
CooldownOkSwappedKey(c, lf, t, target_user, rater_user) ==
    LET key == <<target_user, rater_user>>
    IN  IF key \notin DOMAIN lf THEN TRUE
        ELSE WholeDays(t - FromIsoFormat(lf[key])) >= c.cooldown_days

CooldownOk(c, lf, t, target_user, rater_user) ==
    LET key == <<rater_user, target_user>>
    IN  IF key \notin DOMAIN lf THEN TRUE
        ELSE WholeDays(t - FromIsoFormat(lf[key])) >= c.cooldown_days

InfluenceWeight(c, rater_rating) ==
    LET norm == DivFix(rater_rating, c.max_rating)
    IN  1000 + MulFix(11000, SqrtFix(norm))

DifficultyModifier(c, target_rating) ==
    LET frac == DivFix(target_rating, c.max_rating)
        modifier == SCALE - MulFix(MulFix(frac, frac), frac)
    IN  MaxOf(1200, modifier)

\* The entry the defaultdict makes for a key it does not hold.
DefaultMeta(t) ==
    [received_count |-> 0,
     positive_count |-> 0,
     negative_count |-> 0,
     last_updated |-> IsoFormat(t),
     history |-> <<>>]

\* Mutant of DequeAppend: the oldest event goes only once the history is
\* past its capacity.
DequeAppendOffByOne(h, e) ==
    IF Len(h) > HistoryMaxLen THEN Append(Tail(h), e) ELSE Append(h, e)

\* Mutant of DequeAppend: appendleft, the new event goes in front.
DequeAppendLeft(h, e) ==
    IF Len(h) >= HistoryMaxLen THEN <<e>> \o SubSeq(h, 1, Len(h) - 1)
                               ELSE <<e>> \o h

\* deque(maxlen=500).append
DequeAppend(h, e) ==
    IF Len(h) >= HistoryMaxLen THEN Append(Tail(h), e) ELSE Append(h, e)

\* round(change, 4)
Round4(x) == RoundDiv(x * 10 ^ Decimals, SCALE) * (SCALE \div 10 ^ Decimals)

----------------------------------------------------------------------------
(* process_feedback *)

FeedbackTypes == {"like", "dislike", "comment"}

\* A feedback_type no branch accepts.
BadType == "spam"

Polarity(feedback_type, comment_text) ==
    IF feedback_type = "like" THEN "positive"
    ELSE IF feedback_type = "dislike" THEN "negative"
    ELSE sentiment_from_text(comment_text)

\* Mutant of TypeMult: the multipliers of like and comment are exchanged.
TypeMultSwapped(feedback_type) ==
    IF feedback_type = "like" THEN 10000
    ELSE IF feedback_type = "dislike" THEN 8000
    ELSE 6000

TypeMult(feedback_type) ==
    IF feedback_type = "like" THEN 6000
    ELSE IF feedback_type = "dislike" THEN 8000
    ELSE 10000

\* Mutant of Direction: whatever is not positive counts as negative.
DirectionNoNeutral(polarity) == IF polarity = "positive" THEN 1 ELSE -1

\* Mutant of Direction: the signs are exchanged.
DirectionInverted(polarity) ==
    IF polarity = "positive" THEN -1
    ELSE IF polarity = "negative" THEN 1
    ELSE 0

Direction(polarity) ==
    IF polarity = "positive" THEN 1
    ELSE IF polarity = "negative" THEN -1
    ELSE 0

Change(c, rater_rating, target_rating, feedback_type, direction) ==
    IF direction # 0
    THEN MulFix(MulFix(MulFix(c.base_change, InfluenceWeight(c, rater_rating)),
                       TypeMult(feedback_type)) * direction,
                DifficultyModifier(c, target_rating))
    ELSE 0

\* The cooldown gate closed: the current rating is returned, nothing is written.
Suppressed(c, S, target_user) ==
    [st |-> S, outcome |-> "return", ret |-> get_rating(c, S.ratings, target_user)]

\* Mutant of Rejected: the target's metadata entry is fetched, and so made,
\* before the type is checked.
RejectedLazyMeta(S, t, target_user) ==
    [st |-> [S EXCEPT !.meta = IF target_user \in DOMAIN @ THEN @
                               ELSE (target_user :> DefaultMeta(t)) @@ @],
     outcome |-> "ValueError",
     ret |-> -1]

\* raise ValueError: nothing has been written yet.
Rejected(S, t, target_user) ==
    [st |-> S, outcome |-> "ValueError", ret |-> -1]

\* Mutant of CommitMeta: the event's old_rating is read after the rating was
\* written.
CommitMetaOldAfterWrite(m, t, rater_user, feedback_type, polarity, direction, target_rating, change, new_rating) ==
    [received_count |-> m.received_count + 1,
     positive_count |-> m.positive_count + (IF direction = 1 THEN 1 ELSE 0),
     negative_count |-> m.negative_count + (IF direction = -1 THEN 1 ELSE 0),
     last_updated |-> IsoFormat(t),
     history |-> DequeAppend(m.history,
                    [t |-> IsoFormat(t),
                     rater |-> rater_user,
                     feedback_type |-> feedback_type,
                     polarity |-> polarity,
                     old_rating |-> new_rating,
                     change |-> Round4(change),
                     new_rating |-> new_rating])]

\* Mutant of CommitMeta: received_count goes up only for a feedback that has
\* a direction.
CommitMetaCountsDirected(m, t, rater_user, feedback_type, polarity, direction, target_rating, change, new_rating) ==
    [received_count |-> m.received_count + (IF direction # 0 THEN 1 ELSE 0),
     positive_count |-> m.positive_count + (IF direction = 1 THEN 1 ELSE 0),
     negative_count |-> m.negative_count + (IF direction = -1 THEN 1 ELSE 0),
     last_updated |-> IsoFormat(t),
     history |-> DequeAppend(m.history,
                    [t |-> IsoFormat(t),
                     rater |-> rater_user,
                     feedback_type |-> feedback_type,
                     polarity |-> polarity,
                     old_rating |-> target_rating,
                     change |-> Round4(change),
                     new_rating |-> new_rating])]

\* The metadata entry of the target after an accepted feedback.
CommitMeta(m, t, rater_user, feedback_type, polarity, direction, target_rating, change, new_rating) ==
    [received_count |-> m.received_count + 1,
     positive_count |-> m.positive_count + (IF direction = 1 THEN 1 ELSE 0),
     negative_count |-> m.negative_count + (IF direction = -1 THEN 1 ELSE 0),
     last_updated |-> IsoFormat(t),
     history |-> DequeAppend(m.history,
                    [t |-> IsoFormat(t),
                     rater |-> rater_user,
                     feedback_type |-> feedback_type,
                     polarity |-> polarity,
                     old_rating |-> target_rating,
                     change |-> Round4(change),
                     new_rating |-> new_rating])]

\* Mutant of Accepted: the rater's metadata entry is looked up by indexing,
\* and the defaultdict makes it when the rater has none.
AcceptedMakesRaterMeta(c, S, t, target_user, rater_user, feedback_type, comment_text) ==
    LET polarity == Polarity(feedback_type, comment_text)
        target_rating == get_rating(c, S.ratings, target_user)
        rater_rating == get_rating(c, S.ratings, rater_user)
        direction == Direction(polarity)
        change == Change(c, rater_rating, target_rating, feedback_type, direction)
        new_rating == Clamp(c, target_rating + change)
        m == IF target_user \in DOMAIN S.meta THEN S.meta[target_user]
                                              ELSE DefaultMeta(t)
        m2 == CommitMeta(m, t, rater_user, feedback_type, polarity, direction,
                         target_rating, change, new_rating)
    IN  [st |-> Stores((target_user :> new_rating) @@ S.ratings,
                       (target_user :> m2) @@ S.meta
                           @@ (rater_user :> DefaultMeta(t)),
                       (<<rater_user, target_user>> :> m2.last_updated)
                           @@ S.last_feedback,
                       S.appeal_log),
         outcome |-> "return",
         ret |-> new_rating]

Accepted(c, S, t, target_user, rater_user, feedback_type, comment_text) ==
    LET polarity == Polarity(feedback_type, comment_text)
        target_rating == get_rating(c, S.ratings, target_user)
        rater_rating == get_rating(c, S.ratings, rater_user)
        direction == Direction(polarity)
        change == Change(c, rater_rating, target_rating, feedback_type, direction)
        new_rating == Clamp(c, target_rating + change)
        m == IF target_user \in DOMAIN S.meta THEN S.meta[target_user]
                                              ELSE DefaultMeta(t)
        m2 == CommitMeta(m, t, rater_user, feedback_type, polarity, direction,
                         target_rating, change, new_rating)
    IN  [st |-> Stores((target_user :> new_rating) @@ S.ratings,
                       (target_user :> m2) @@ S.meta,
                       (<<rater_user, target_user>> :> m2.last_updated)
                           @@ S.last_feedback,
                       S.appeal_log),
         outcome |-> "return",
         ret |-> new_rating]

\* process_feedback(target_user, rater_user, feedback_type, comment_text) at
\* time t on the stores S: the stores after it and what the caller gets.
ProcessFeedback(c, S, t, target_user, rater_user, feedback_type, comment_text) ==
    IF ~CooldownOk(c, S.last_feedback, t, target_user, rater_user)
    THEN Suppressed(c, S, target_user)
    ELSE IF feedback_type \notin FeedbackTypes
    THEN Rejected(S, t, target_user)
    ELSE Accepted(c, S, t, target_user, rater_user, feedback_type, comment_text)

----------------------------------------------------------------------------
(* bulk_process *)

RECURSIVE BulkLoopOffByOne(_, _, _, _, _, _)
\* Mutant of BulkLoop: the loop stops one entry short.
BulkLoopOffByOne(c, S, t, feedbacks, i, results) ==
    IF i >= Len(feedbacks)
    THEN [st |-> S, outcome |-> "return", ret |-> results, failed |-> 0]
    ELSE LET fb == feedbacks[i]
             r == ProcessFeedback(c, S, t, fb.target_user, fb.rater_user,
                                  fb.feedback_type, fb.comment_text)
         IN  IF r.outcome = "ValueError"
             THEN [st |-> r.st, outcome |-> "ValueError", ret |-> <<>>, failed |-> i]
             ELSE BulkLoopOffByOne(c, r.st, t, feedbacks, i + 1,
                                   Append(results, r.ret))

RECURSIVE BulkLoopSwallow(_, _, _, _, _, _)
\* Mutant of BulkLoop: an entry that raises is skipped and the loop goes on.
BulkLoopSwallow(c, S, t, feedbacks, i, results) ==
    IF i > Len(feedbacks)
    THEN [st |-> S, outcome |-> "return", ret |-> results, failed |-> 0]
    ELSE LET fb == feedbacks[i]
             r == ProcessFeedback(c, S, t, fb.target_user, fb.rater_user,
                                  fb.feedback_type, fb.comment_text)
         IN  IF r.outcome = "ValueError"
             THEN BulkLoopSwallow(c, r.st, t, feedbacks, i + 1, results)
             ELSE BulkLoopSwallow(c, r.st, t, feedbacks, i + 1,
                                  Append(results, r.ret))

RECURSIVE BulkLoop(_, _, _, _, _, _)
\* The for loop from entry i on, results holding what the entries before i
\* returned.  An entry that raises ends the call: failed is its index.
BulkLoop(c, S, t, feedbacks, i, results) ==
    IF i > Len(feedbacks)
    THEN [st |-> S, outcome |-> "return", ret |-> results, failed |-> 0]
    ELSE LET fb == feedbacks[i]
             r == ProcessFeedback(c, S, t, fb.target_user, fb.rater_user,
                                  fb.feedback_type, fb.comment_text)
         IN  IF r.outcome = "ValueError"
             THEN [st |-> r.st, outcome |-> "ValueError", ret |-> <<>>, failed |-> i]
             ELSE BulkLoop(c, r.st, t, feedbacks, i + 1, Append(results, r.ret))

BulkProcess(c, S, t, feedbacks) == BulkLoop(c, S, t, feedbacks, 1, <<>>)

----------------------------------------------------------------------------
(* apply_decay *)

\* Mutant of DecaySkips: only a negative elapsed time is skipped.
DecaySkipsNegativeOnly(elapsed) == elapsed < 0

\* if days <= 0: continue
DecaySkips(elapsed) == elapsed <= 0

\* math.exp(-k * days) with k = ln 2 / max(1.0, decay_half_life_days):
\* one halving per half-life elapsed, and 2^(-f) for the fraction f left.
DecayFactor(c, elapsed) ==
    LET span == UnitsPerDay * MaxOf(1, c.decay_half_life_days)
    IN  Halve(Exp2NegFrac(DivFix(elapsed % span, span)), elapsed \div span)

\* Mutant of Decayed: the remaining distance is taken off neutral.
DecayedOvershoot(c, old_r, factor) == c.neutral - MulFix(old_r - c.neutral, factor)

Decayed(c, old_r, factor) == c.neutral + MulFix(old_r - c.neutral, factor)

\* Mutant of DecayMeta: a decay counts as an event received.
DecayMetaCounts(m, t, old_r, new_r) ==
    [m EXCEPT !.received_count = @ + 1,
              !.last_updated = IsoFormat(t),
              !.history = DequeAppend(@, [t |-> IsoFormat(t),
                                          event |-> "decay",
                                          old_rating |-> old_r,
                                          new_rating |-> new_r])]

\* The metadata entry of a user the sweep has decayed.
DecayMeta(m, t, old_r, new_r) ==
    [m EXCEPT !.last_updated = IsoFormat(t),
              !.history = DequeAppend(@, [t |-> IsoFormat(t),
                                          event |-> "decay",
                                          old_rating |-> old_r,
                                          new_rating |-> new_r])]

\* The users the sweep visits: those with metadata.
DecayTargets(S) == DOMAIN S.meta

ApplyDecay(c, S, t) ==
    LET Elapsed(u) == t - FromIsoFormat(S.meta[u].last_updated)
        touched == {u \in DecayTargets(S) : ~DecaySkips(Elapsed(u))}
        OldR(u) == get_rating(c, S.ratings, u)
        NewR(u) == Clamp(c, Decayed(c, OldR(u), DecayFactor(c, Elapsed(u))))
    IN  Stores([u \in touched |-> NewR(u)] @@ S.ratings,
               [u \in touched |-> DecayMeta(S.meta[u], t, OldR(u), NewR(u))]
                   @@ S.meta,
               S.last_feedback,
               S.appeal_log)

----------------------------------------------------------------------------
(* file_appeal *)

FileAppealTo(S, t, target_user, reason) ==
    Stores(S.ratings, S.meta, S.last_feedback,
           Append(S.appeal_log,
                  [user |-> target_user, reason |-> reason, time |-> IsoFormat(t)]))

\* Mutant of MetaGet: the entry is read by indexing, and the defaultdict
\* makes the entry it does not hold.
MetaIndexed(S, t, user_id) ==
    LET m == IF user_id \in DOMAIN S.meta THEN S.meta[user_id] ELSE DefaultMeta(t)
    IN  [st |-> [S EXCEPT !.meta = (user_id :> m) @@ @], m |-> m]

\* self.meta.get(user_id, {}): the entry, or an empty dict; the defaultdict
\* makes no entry on get.
MetaGet(S, t, user_id) ==
    [st |-> S,
     m |-> IF user_id \in DOMAIN S.meta THEN S.meta[user_id] ELSE [x \in {} |-> 0]]

\* m.get(key, default)
DictGet(m, key, default) == IF key \in DOMAIN m THEN m[key] ELSE default

\* get_rating as a call: the stores it leaves and what the caller gets.
GetRating(c, S, user_id) ==
    [st |-> S, ret |-> get_rating(c, S.ratings, user_id)]

AnonymizedReport(c, S, t, user_id) ==
    LET r == get_rating(c, S.ratings, user_id)
        g == MetaGet(S, t, user_id)
    IN  [st |-> g.st,
         ret |-> [rating |-> r,
                  received_count |-> DictGet(g.m, "received_count", 0),
                  positive_count |-> DictGet(g.m, "positive_count", 0),
                  negative_count |-> DictGet(g.m, "negative_count", 0)]]

\* {"user": user_id, **meta, "rating": rating}: a later key wins.
FullReport(c, S, t, user_id) ==
    LET g == MetaGet(S, t, user_id)
    IN  [st |-> g.st,
         ret |-> ("rating" :> get_rating(c, g.st.ratings, user_id))
                     @@ g.m @@ ("user" :> user_id)]

----------------------------------------------------------------------------
(* The state machine *)

EmptyMap == [x \in {} |-> 0]

EmptyStores == Stores(EmptyMap, EmptyMap, EmptyMap, <<>>)

Cur == Stores(ratings, meta, last_feedback, appeal_log)

RECURSIVE SumOver(_, _)
SumOver(f, dom) ==
    IF dom = {} THEN 0
    ELSE LET x == CHOOSE y \in dom : TRUE
         IN  f[x] + SumOver(f, dom \ {x})

\* The history events of a user made since the clock read 0.
EventsSinceZero(h) ==
    Cardinality({i \in 1..Len(h) : FromIsoFormat(h[i].t) >= 0})

\* The number of history events made since the clock read 0, over all users.
TotalEvents(S) ==
    SumOver([u \in DOMAIN S.meta |-> EventsSinceZero(S.meta[u].history)],
            DOMAIN S.meta)

\* The history events and appeal records held.
Records(S) == TotalEvents(S) + Len(S.appeal_log)

\* The calls explored stay within the model's bounds.
WithinBounds(S) == Records(S) <= MaxRecords

\* The (target, rater) pairs of the feedback given along a behaviour.
Pairs == {<<"alice", "bob">>, <<"bob", "alice">>}

\* The (feedback_type, comment_text) pairs given along a behaviour.
ExploredArgs ==
    {<<ft, NoText>> : ft \in {"like", "dislike", "comment", BadType}}

\* The (feedback_type, comment_text) pairs a caller can pass.
FeedbackArgs ==
    {<<ft, NoText>> : ft \in {"like", "dislike", BadType}}
        \cup {<<"comment", x>> : x \in Texts}

Entry(target_user, rater_user, feedback_type, comment_text) ==
    [target_user |-> target_user, rater_user |-> rater_user,
     feedback_type |-> feedback_type, comment_text |-> comment_text]

\* The entries of the lists handed to bulk_process.
BulkEntries ==
    {Entry("alice", "bob", "like", NoText),
     Entry("alice", "alice", "comment", NoText),
     Entry("alice", "bob", BadType, NoText)}

BulkLists == UNION {[1..n -> BulkEntries] : n \in 1..MaxBulk}

\* The instants at which calls are made along a behaviour: construction,
\* half a day short of the cooldown, and the cooldown.
Instants ==
    {0,
     UnitsPerDay * DefaultCooldownDays - 1,
     UnitsPerDay * DefaultCooldownDays}

\* The record of a call that left the stores as S.
Called(op, outcome, S) ==
    [op |-> op, outcome |-> outcome, added |-> Records(S) - Records(Cur)]

\* A call leaves the stores as S.
Commit(S) ==
    /\ WithinBounds(S)
    /\ ratings' = S.ratings
    /\ meta' = S.meta
    /\ last_feedback' = S.last_feedback
    /\ appeal_log' = S.appeal_log
    /\ UNCHANGED <<cfg, now, threads>>

InitWith(configs) ==
    /\ cfg \in configs
    /\ now = 0
    /\ ratings = EmptyMap
    /\ meta = EmptyMap
    /\ last_feedback = EmptyMap
    /\ appeal_log = <<>>
    /\ call = [op |-> "init", outcome |-> "return", added |-> 0]
    /\ threads = EmptyMap

\* A system constructed with the default arguments.
Init == InitWith({DefaultConfig})

\* A system constructed with any of the configurations.
InitAnyConfig == InitWith(Configs)

\* The events of the long run that precedes the clock's 0: one short of a
\* full history.
RunLength == HistoryMaxLen - 1

\* The time between two events of the long run: half a cooldown.
RunStep == (UnitsPerDay * DefaultCooldownDays) \div 2

\* The time of event n of the long run, the last of them one step before 0.
RunTime(n) == (n - RunLength - 1) * RunStep

\* Event n of the long run on the stores S: bob likes alice once per
\* cooldown, and a decay sweep runs midway between two likes.
RunEvent(S, n) ==
    IF n % 2 = 1
    THEN ProcessFeedback(DefaultConfig, S, RunTime(n),
                         "alice", "bob", "like", NoText).st
    ELSE ApplyDecay(DefaultConfig, S, RunTime(n))

\* A system constructed long before the clock reads 0.
InitLongRun ==
    /\ cfg = DefaultConfig
    /\ now = RunTime(1)
    /\ ratings = EmptyMap
    /\ meta = EmptyMap
    /\ last_feedback = EmptyMap
    /\ appeal_log = <<>>
    /\ call = [op |-> "init", outcome |-> "return", added |-> 0]
    /\ threads = EmptyMap

\* The long run: the event due now is made and the clock moves on a step.
DoRunEvent ==
    LET n == now \div RunStep + RunLength + 1
        S == RunEvent(Cur, n)
    IN  /\ ratings' = S.ratings
        /\ meta' = S.meta
        /\ last_feedback' = S.last_feedback
        /\ appeal_log' = S.appeal_log
        /\ now' = now + RunStep
        /\ call' = [op |-> "run", outcome |-> "return", added |-> 0]
        /\ UNCHANGED <<cfg, threads>>

\* Time passes between calls.
Tick ==
    \E t \in Instants :
        /\ t > now
        /\ now' = t
        /\ call' = Called("tick", "return", Cur)
        /\ UNCHANGED <<cfg, ratings, meta, last_feedback, appeal_log, threads>>

DoProcessFeedback ==
    \E p \in Pairs, a \in ExploredArgs :
        LET r == ProcessFeedback(cfg, Cur, now, p[1], p[2], a[1], a[2])
        IN  /\ Commit(r.st)
            /\ call' = Called("process_feedback", r.outcome, r.st)

DoBulkProcess ==
    \E feedbacks \in BulkLists :
        LET r == BulkProcess(cfg, Cur, now, feedbacks)
        IN  /\ Commit(r.st)
            /\ call' = Called("bulk_process", r.outcome, r.st)

DoApplyDecay ==
    LET S == ApplyDecay(cfg, Cur, now)
    IN  /\ Commit(S)
        /\ call' = Called("apply_decay", "return", S)

DoFileAppeal ==
    \E target_user \in AppealTargets, reason \in Reasons :
        LET S == FileAppealTo(Cur, now, target_user, reason)
        IN  /\ Commit(S)
            /\ call' = Called("file_appeal", "return", S)

DoGetRating ==
    \E user_id \in Users :
        LET r == GetRating(cfg, Cur, user_id)
        IN  /\ Commit(r.st)
            /\ call' = Called("get_rating", "return", r.st)

DoAnonymizedReport ==
    \E user_id \in Users :
        LET r == AnonymizedReport(cfg, Cur, now, user_id)
        IN  /\ Commit(r.st)
            /\ call' = Called("anonymized_report", "return", r.st)

DoFullReport ==
    \E user_id \in Users :
        LET r == FullReport(cfg, Cur, now, user_id)
        IN  /\ Commit(r.st)
            /\ call' = Called("full_report", "return", r.st)

Next ==
    \/ Tick
    \/ DoProcessFeedback
    \/ DoBulkProcess
    \/ DoApplyDecay
    \/ DoFileAppeal
    \/ DoGetRating

Spec == Init /\ [][Next]_vars

SpecAnyConfig == InitAnyConfig /\ [][Next]_vars

\* The calls made one at a time: bulk_process, a loop of process_feedback
\* calls, is left to the caller.
NextCalls ==
    \/ Tick
    \/ DoProcessFeedback
    \/ DoApplyDecay
    \/ DoFileAppeal
    \/ DoGetRating
    \/ DoAnonymizedReport
    \/ DoFullReport

SpecCalls == Init /\ [][NextCalls]_vars

\* The long run up to the clock's 0, and the calls one at a time from then.
NextLongRun ==
    \/ now < 0 /\ DoRunEvent
    \/ now >= 0 /\ NextCalls

SpecLongRun == InitLongRun /\ [][NextLongRun]_vars

----------------------------------------------------------------------------
(* process_feedback calls running concurrently, one lock per target user *)

\* The calls the threads make: two users commenting on each other, a third
\* user who rates both and is rated by nobody, and a call with a bad type.
ThreadCalls ==
    {Entry("alice", "bob", "comment", Str(<<"Great">>)),
     Entry("bob", "alice", "comment", Str(<<"Great">>)),
     Entry("alice", "carol", "like", NoText),
     Entry("bob", "carol", "dislike", NoText),
     Entry("alice", "bob", BadType, NoText)}

\* A thread about to make the call fb, its local variables not yet set.
Thread(fb) ==
    [pc |-> "acquire",
     target_user |-> fb.target_user,
     rater_user |-> fb.rater_user,
     feedback_type |-> fb.feedback_type,
     comment_text |-> fb.comment_text,
     polarity |-> "",
     target_rating |-> 0,
     rater_rating |-> 0,
     new_rating |-> 0,
     outcome |-> "running",
     ret |-> 0]

\* The thread is inside the section its target's lock guards.
Holds(q) == threads[q].pc \notin {"acquire", "done"}

\* A step of thread p that touches nothing but the thread.
Local(p, th) ==
    /\ threads' = [threads EXCEPT ![p] = th]
    /\ UNCHANGED <<cfg, now, ratings, meta, last_feedback, appeal_log, call>>

\* The thread takes the lock of its target user, once no other thread holds
\* it.
TAcquire(p) ==
    /\ threads[p].pc = "acquire"
    /\ \A q \in DOMAIN threads \ {p} :
           Holds(q) => threads[q].target_user # threads[p].target_user
    /\ Local(p, [threads[p] EXCEPT !.pc = "cooldown_ok"])

\* if not self._cooldown_ok(target_user, rater_user): return get_rating(...)
TCooldownOk(p) ==
    LET th == threads[p]
    IN  /\ th.pc = "cooldown_ok"
        /\ IF CooldownOk(cfg, last_feedback, now, th.target_user, th.rater_user)
           THEN Local(p, [th EXCEPT !.pc = "polarity"])
           ELSE Local(p, [th EXCEPT !.pc = "release",
                                    !.outcome = "suppressed",
                                    !.ret = get_rating(cfg, ratings, th.target_user)])

\* The polarity of the feedback, or the ValueError for a bad type.
TPolarity(p) ==
    LET th == threads[p]
    IN  /\ th.pc = "polarity"
        /\ IF th.feedback_type \in FeedbackTypes
           THEN Local(p, [th EXCEPT !.pc = "target_rating",
                                    !.polarity = Polarity(th.feedback_type,
                                                          th.comment_text)])
           ELSE Local(p, [th EXCEPT !.pc = "release",
                                    !.outcome = "ValueError",
                                    !.ret = -1])

\* target_rating = self.get_rating(target_user)
TTargetRating(p) ==
    LET th == threads[p]
    IN  /\ th.pc = "target_rating"
        /\ Local(p, [th EXCEPT !.pc = "rater_rating",
                               !.target_rating =
                                   get_rating(cfg, ratings, th.target_user)])

\* rater_rating = self.get_rating(rater_user)
TRaterRating(p) ==
    LET th == threads[p]
    IN  /\ th.pc = "rater_rating"
        /\ Local(p, [th EXCEPT !.pc = "update_rating",
                               !.rater_rating =
                                   get_rating(cfg, ratings, th.rater_user)])

\* The change computed from the two ratings read.
ThreadChange(th) ==
    Change(cfg, th.rater_rating, th.target_rating, th.feedback_type,
           Direction(th.polarity))

\* self.ratings[target_user] = new_rating
TUpdateRating(p) ==
    LET th == threads[p]
        new_rating == Clamp(cfg, th.target_rating + ThreadChange(th))
    IN  /\ th.pc = "update_rating"
        /\ ratings' = (th.target_user :> new_rating) @@ ratings
        /\ threads' = [threads EXCEPT ![p] = [th EXCEPT !.pc = "update_meta",
                                                        !.new_rating = new_rating]]
        /\ UNCHANGED <<cfg, now, meta, last_feedback, appeal_log, call>>

\* m = self.meta[target_user], its counters, last_updated and history.
TUpdateMeta(p) ==
    LET th == threads[p]
        m == IF th.target_user \in DOMAIN meta THEN meta[th.target_user]
                                               ELSE DefaultMeta(now)
        m2 == CommitMeta(m, now, th.rater_user, th.feedback_type, th.polarity,
                         Direction(th.polarity), th.target_rating,
                         ThreadChange(th), th.new_rating)
    IN  /\ th.pc = "update_meta"
        /\ meta' = (th.target_user :> m2) @@ meta
        /\ threads' = [threads EXCEPT ![p].pc = "record_last"]
        /\ UNCHANGED <<cfg, now, ratings, last_feedback, appeal_log, call>>

\* Mutant of TRecordLast: the key of the entry is (target, rater).
TRecordLastSwappedKey(p) ==
    LET th == threads[p]
    IN  /\ th.pc = "record_last"
        /\ last_feedback' =
               (<<th.target_user, th.rater_user>> :> meta[th.target_user].last_updated)
                   @@ last_feedback
        /\ threads' = [threads EXCEPT ![p] = [th EXCEPT !.pc = "release",
                                                        !.outcome = "accepted",
                                                        !.ret = th.new_rating]]
        /\ UNCHANGED <<cfg, now, ratings, meta, appeal_log, call>>

\* self.last_feedback[(rater_user, target_user)] = m["last_updated"], and
\* the return of new_rating.
TRecordLast(p) ==
    LET th == threads[p]
    IN  /\ th.pc = "record_last"
        /\ last_feedback' =
               (<<th.rater_user, th.target_user>> :> meta[th.target_user].last_updated)
                   @@ last_feedback
        /\ threads' = [threads EXCEPT ![p] = [th EXCEPT !.pc = "release",
                                                        !.outcome = "accepted",
                                                        !.ret = th.new_rating]]
        /\ UNCHANGED <<cfg, now, ratings, meta, appeal_log, call>>

\* The thread gives the lock back, on a return and on a ValueError alike.
TRelease(p) ==
    /\ threads[p].pc = "release"
    /\ Local(p, [threads[p] EXCEPT !.pc = "done"])

\* A new system and MaxThreads threads, each about to make one of the calls.
InitThreads ==
    /\ cfg = DefaultConfig
    /\ now = 0
    /\ ratings = EmptyMap
    /\ meta = EmptyMap
    /\ last_feedback = EmptyMap
    /\ appeal_log = <<>>
    /\ call = [op |-> "init", outcome |-> "return", added |-> 0]
    /\ threads \in [1..MaxThreads -> {Thread(fb) : fb \in ThreadCalls}]

NextThreads ==
    \/ \E p \in DOMAIN threads : TAcquire(p)
    \/ \E p \in DOMAIN threads : TCooldownOk(p)
    \/ \E p \in DOMAIN threads : TPolarity(p)
    \/ \E p \in DOMAIN threads : TTargetRating(p)
    \/ \E p \in DOMAIN threads : TRaterRating(p)
    \/ \E p \in DOMAIN threads : TUpdateRating(p)
    \/ \E p \in DOMAIN threads : TUpdateMeta(p)
    \/ \E p \in DOMAIN threads : TRecordLast(p)
    \/ \E p \in DOMAIN threads : TRelease(p)

SpecThreads == InitThreads /\ [][NextThreads]_vars

----------------------------------------------------------------------------
(* Vocabulary of the properties *)

\* process_feedback(target_user, rater_user, a[1], a[2]) called now.
FeedbackNow(target_user, rater_user, a) ==
    ProcessFeedback(cfg, Cur, now, target_user, rater_user, a[1], a[2])

\* The times at which the next call may be made: now, half a day later,
\* half a day short of the cooldown later, the cooldown later, and after a
\* long absence.
CallTimes ==
    {now + d : d \in {0, 1,
                      UnitsPerDay * cfg.cooldown_days - 1,
                      UnitsPerDay * cfg.cooldown_days,
                      LongGap}}

\* process_feedback(target_user, rater_user, a[1], a[2]) called at time t.
FeedbackAt(t, target_user, rater_user, a) ==
    ProcessFeedback(cfg, Cur, t, target_user, rater_user, a[1], a[2])

\* At time t a cooldown entry exists for the pair and fewer than
\* cooldown_days whole days have passed since its timestamp.
InCooldownAt(t, target_user, rater_user) ==
    LET key == <<rater_user, target_user>>
    IN  /\ key \in DOMAIN last_feedback
        /\ (t - last_feedback[key].iso) \div UnitsPerDay < cfg.cooldown_days

InCooldown(target_user, rater_user) == InCooldownAt(now, target_user, rater_user)

InRange(x) == cfg.min_rating <= x /\ x <= cfg.max_rating

\* The metadata a report shows for a user: zero counters when there is none.
ShownMeta(m, u) ==
    IF u \in DOMAIN m THEN m[u]
    ELSE [received_count |-> 0, positive_count |-> 0, negative_count |-> 0,
          history |-> <<>>]

IsFeedbackEvent(e) == "rater" \in DOMAIN e

IsDecayEvent(e) == "event" \in DOMAIN e

LastEvent(u) == meta[u].history[Len(meta[u].history)]

HasEvents(u) == u \in DOMAIN meta /\ meta[u].history # <<>>

RECURSIVE Sequentially(_, _)
\* process_feedback called on each entry of a list, one call after the other,
\* up to the first call that raises: the stores the last call found (before)
\* and left (st), and what the calls that returned gave.
Sequentially(S, feedbacks) ==
    IF feedbacks = <<>>
    THEN [st |-> S, before |-> S, rets |-> <<>>, raised |-> FALSE]
    ELSE LET n == Len(feedbacks)
             front == Sequentially(S, SubSeq(feedbacks, 1, n - 1))
             fb == feedbacks[n]
             r == ProcessFeedback(cfg, front.st, now, fb.target_user,
                                  fb.rater_user, fb.feedback_type, fb.comment_text)
         IN  IF front.raised THEN front
             ELSE [st |-> r.st,
                   before |-> front.st,
                   rets |-> IF r.outcome = "ValueError" THEN front.rets
                            ELSE Append(front.rets, r.ret),
                   raised |-> r.outcome = "ValueError"]

AllValid(feedbacks) ==
    \A i \in 1..Len(feedbacks) : feedbacks[i].feedback_type \in FeedbackTypes

----------------------------------------------------------------------------
(* C1 *)

\* C1: with min_rating <= neutral_rating <= max_rating, every rating held in
\* the Rating Store and every value get_rating returns lies in
\* [min_rating, max_rating], whatever calls were made.
C1_RatingsClamped ==
    (cfg.min_rating <= cfg.neutral /\ cfg.neutral <= cfg.max_rating) =>
        \A u \in Users :
            /\ u \in DOMAIN ratings => InRange(ratings[u])
            /\ InRange(get_rating(cfg, ratings, u))

\* A feedback pushed a rating past max_rating and the clamp held it there.
C1_Witness ==
    \E u \in Users :
        /\ HasEvents(u)
        /\ IsFeedbackEvent(LastEvent(u))
        /\ LastEvent(u).change > 0
        /\ LastEvent(u).old_rating + LastEvent(u).change > cfg.max_rating
        /\ ratings[u] = cfg.max_rating

----------------------------------------------------------------------------
(* C2 *)

\* C2: process_feedback for a pair inside its cooldown at the time of the
\* call is a pure read: it
\* returns the target's current rating and leaves the Rating Store, the
\* metadata and the Cooldown Tracker (that pair's timestamp too) as they were.
C2_SuppressedIsPureRead ==
    \A t \in CallTimes, target_user \in Users, rater_user \in Users,
       a \in FeedbackArgs :
        InCooldownAt(t, target_user, rater_user) =>
            LET r == FeedbackAt(t, target_user, rater_user, a)
            IN  /\ r.outcome = "return"
                /\ r.ret = get_rating(cfg, ratings, target_user)
                /\ r.st.ratings = ratings
                /\ r.st.meta = meta
                /\ r.st.last_feedback = last_feedback
                /\ r.st.appeal_log = appeal_log

\* A process_feedback call has just returned without adding anything, some
\* time after the accepted feedback of a pair still inside its cooldown.
C2_Witness ==
    /\ call.op = "process_feedback"
    /\ call.outcome = "return"
    /\ call.added = 0
    /\ \E target_user \in Users, rater_user \in Users :
          /\ InCooldown(target_user, rater_user)
          /\ last_feedback[<<rater_user, target_user>>].iso < now

----------------------------------------------------------------------------
(* C3 *)

\* C3: process_feedback with a feedback_type outside {like, dislike, comment}
\* fails with ValueError for every pair and in every state, whatever the
\* cooldown state of the pair; it never returns a rating.
C3_InvalidTypeAlwaysRaises ==
    \A target_user \in Users, rater_user \in Users :
        FeedbackNow(target_user, rater_user, <<BadType, NoText>>).outcome
            = "ValueError"

----------------------------------------------------------------------------
(* C4 *)

\* C4: whenever process_feedback fails on an invalid feedback_type, the
\* Rating Store, the Metadata Store (no entry made for the target), the
\* Cooldown Tracker and the Appeal Log are as they were before the call.
C4_RejectedLeavesStores ==
    \A target_user \in Users, rater_user \in Users :
        LET r == FeedbackNow(target_user, rater_user, <<BadType, NoText>>)
        IN  r.outcome = "ValueError" =>
                /\ r.st.ratings = ratings
                /\ r.st.meta = meta
                /\ DOMAIN r.st.meta = DOMAIN meta
                /\ r.st.last_feedback = last_feedback
                /\ r.st.appeal_log = appeal_log

\* A process_feedback call has just raised, with one user holding metadata
\* and the other none.
C4_Witness ==
    /\ call.op = "process_feedback"
    /\ call.outcome = "ValueError"
    /\ call.added = 0
    /\ DOMAIN meta # {}
    /\ DOMAIN meta # Users

----------------------------------------------------------------------------
(* C5 *)

\* C5: an accepted process_feedback whose polarity resolves to neutral leaves
\* the target's rating as it was, adds one to received_count and nothing to
\* positive_count and negative_count, sets last_updated, appends one history
\* record with change 0 and writes the pair's cooldown entry.
C5_NeutralFeedback ==
    \A target_user \in Users, rater_user \in Users, a \in FeedbackArgs :
        (/\ a[1] \in FeedbackTypes
         /\ ~InCooldown(target_user, rater_user)
         /\ Polarity(a[1], a[2]) = "neutral") =>
            LET r == FeedbackNow(target_user, rater_user, a)
                old == get_rating(cfg, ratings, target_user)
                m0 == ShownMeta(meta, target_user)
                m2 == r.st.meta[target_user]
                n == Len(m0.history)
            IN  /\ r.outcome = "return"
                /\ r.ret = old
                /\ r.st.ratings[target_user] = old
                /\ m2.received_count = m0.received_count + 1
                /\ m2.positive_count = m0.positive_count
                /\ m2.negative_count = m0.negative_count
                /\ m2.last_updated = IsoFormat(now)
                /\ Len(m2.history) = n + 1
                /\ SubSeq(m2.history, 1, n) = m0.history
                /\ m2.history[n + 1].change = 0
                /\ m2.history[n + 1].old_rating = old
                /\ m2.history[n + 1].new_rating = old
                /\ m2.history[n + 1].t = IsoFormat(now)
                /\ r.st.last_feedback[<<rater_user, target_user>>] = IsoFormat(now)

\* A process_feedback call has just added a neutral record to a history.
C5_Witness ==
    /\ call.op = "process_feedback"
    /\ call.added = 1
    /\ \E u \in Users :
          /\ HasEvents(u)
          /\ IsFeedbackEvent(LastEvent(u))
          /\ LastEvent(u).polarity = "neutral"
          /\ LastEvent(u).t = IsoFormat(now)
          /\ meta[u].positive_count + meta[u].negative_count
                < meta[u].received_count

----------------------------------------------------------------------------
(* C6 *)

\* C6: for a list whose entries all have a valid feedback_type, bulk_process
\* does what calling process_feedback on each entry in list order does: the
\* same stores are left, the list returned holds what each call returned,
\* and its last element is get_rating of the last entry's target afterward.
C6_BulkIsSequential ==
    \A feedbacks \in BulkLists :
        AllValid(feedbacks) =>
            LET b == BulkProcess(cfg, Cur, now, feedbacks)
                s == Sequentially(Cur, feedbacks)
                n == Len(feedbacks)
            IN  /\ b.outcome = "return"
                /\ b.st = s.st
                /\ b.ret = s.rets
                /\ Len(b.ret) = n
                /\ b.ret[n] = get_rating(cfg, b.st.ratings, feedbacks[n].target_user)

\* A bulk_process call has just returned after two of its entries were
\* accepted.
C6_Witness ==
    /\ call.op = "bulk_process"
    /\ call.outcome = "return"
    /\ call.added >= 2

----------------------------------------------------------------------------
(* C7 *)

\* C7: if entry i of a bulk_process list fails, the error reaches the caller,
\* no entry after i is applied, and what the entries before i did stays in
\* the stores.
C7_BulkStopsAtFailure ==
    \A feedbacks \in BulkLists :
        LET s == Sequentially(Cur, feedbacks)
            i == Len(s.rets) + 1
            b == BulkProcess(cfg, Cur, now, feedbacks)
        IN  s.raised =>
                /\ b.outcome = "ValueError"
                /\ b.failed = i
                /\ b.st = s.before
                /\ b.st = s.st

\* A bulk_process call has just raised after an earlier entry of its list
\* was accepted.
C7_Witness ==
    /\ call.op = "bulk_process"
    /\ call.outcome = "ValueError"
    /\ call.added >= 1

----------------------------------------------------------------------------
(* C8 *)

\* C8: apply_decay with no time elapsed since a user's last_updated leaves
\* that user alone (rating, last_updated and history as they were), so a
\* second sweep at the instant of the first changes nothing.
C8_DecayZeroElapsedNoOp ==
    LET once == ApplyDecay(cfg, Cur, now)
    IN  /\ \A u \in DOMAIN meta :
              FromIsoFormat(meta[u].last_updated) = now =>
                  /\ once.ratings[u] = ratings[u]
                  /\ once.meta[u] = meta[u]
        /\ ApplyDecay(cfg, once, now) = once

\* An apply_decay call has just found nothing to do, right after a sweep
\* that decayed a user.
C8_Witness ==
    /\ call.op = "apply_decay"
    /\ call.added = 0
    /\ \E u \in Users :
          /\ HasEvents(u)
          /\ IsDecayEvent(LastEvent(u))
          /\ LastEvent(u).t = IsoFormat(now)

----------------------------------------------------------------------------
(* C9 *)

\* C9: apply_decay changes no received_count, positive_count or
\* negative_count, leaves the Cooldown Tracker and the Appeal Log alone and
\* makes no rating or metadata entry for a user that had none.
C9_DecayFrame ==
    LET S == ApplyDecay(cfg, Cur, now)
    IN  /\ DOMAIN S.ratings = DOMAIN ratings
        /\ DOMAIN S.meta = DOMAIN meta
        /\ \A u \in DOMAIN meta :
              /\ S.meta[u].received_count = meta[u].received_count
              /\ S.meta[u].positive_count = meta[u].positive_count
              /\ S.meta[u].negative_count = meta[u].negative_count
        /\ S.last_feedback = last_feedback
        /\ S.appeal_log = appeal_log

\* An apply_decay call has just decayed a user, with a cooldown entry held
\* and another user holding no entry at all.
C9_Witness ==
    /\ call.op = "apply_decay"
    /\ call.added >= 1
    /\ DOMAIN last_feedback # {}
    /\ \E u \in Users : u \notin DOMAIN meta /\ u \notin DOMAIN ratings
    /\ \E u \in Users : HasEvents(u) /\ meta[u].received_count >= 1

----------------------------------------------------------------------------
(* C10 *)

\* The elapsed time after which nothing is left of a distance at the model's
\* resolution: fifteen half-lives.
DecayHorizon == 15 * UnitsPerDay * MaxOf(1, cfg.decay_half_life_days)

\* C10: for a user with metadata and elapsed days > 0 (neutral_rating inside
\* [min_rating, max_rating]), apply_decay, whenever it is called, leaves the
\* rating between the old rating and neutral, never farther from neutral and
\* never past it, and after a long enough time the rating is neutral.
C10_DecayTowardNeutral ==
    (cfg.min_rating <= cfg.neutral /\ cfg.neutral <= cfg.max_rating) =>
        \A t \in CallTimes :
            \A u \in DOMAIN meta :
                LET elapsed == t - FromIsoFormat(meta[u].last_updated)
                    old == get_rating(cfg, ratings, u)
                    new == ApplyDecay(cfg, Cur, t).ratings[u]
                IN  elapsed > 0 =>
                        /\ old >= cfg.neutral => (cfg.neutral <= new /\ new <= old)
                        /\ old <= cfg.neutral => (old <= new /\ new <= cfg.neutral)
                        /\ elapsed >= DecayHorizon => new = cfg.neutral

\* An apply_decay call has just moved a rating part of the way to neutral.
C10_Witness ==
    /\ call.op = "apply_decay"
    /\ call.added >= 1
    /\ \E u \in Users :
          /\ HasEvents(u)
          /\ IsDecayEvent(LastEvent(u))
          /\ LastEvent(u).t = IsoFormat(now)
          /\ LastEvent(u).new_rating # LastEvent(u).old_rating
          /\ LastEvent(u).new_rating # cfg.neutral
          /\ ratings[u] = LastEvent(u).new_rating

----------------------------------------------------------------------------
(* C11 *)

Abs(x) == IF x >= 0 THEN x ELSE -x

\* Ratings spread over [min_rating, max_rating], both ends included.
RatingGrid ==
    {cfg.min_rating + RoundDiv((cfg.max_rating - cfg.min_rating) * k, GridSteps) :
        k \in 0..GridSteps}

\* The feedback events of every history stay within the limit their type has.
EventsWithin(Limit(_)) ==
    \A u \in DOMAIN meta :
        \A i \in 1..Len(meta[u].history) :
            LET e == meta[u].history[i]
            IN  IsFeedbackEvent(e) =>
                    /\ Abs(e.change) <= Limit(e.feedback_type)
                    /\ Abs(e.new_rating - e.old_rating) <= Limit(e.feedback_type)

\* The change computed for every rater rating and target rating of the grid,
\* every feedback type and both directions stays within the limit.  The
\* change depends on the configuration and on these inputs alone, so it is
\* computed once, for the system as constructed.
ChangesWithin(Limit(_)) ==
    call.op = "init" =>
    \A rater_rating \in RatingGrid, target_rating \in RatingGrid,
       feedback_type \in FeedbackTypes, direction \in {1, -1} :
        LET change == Change(cfg, rater_rating, target_rating,
                             feedback_type, direction)
        IN  /\ Abs(change) <= Limit(feedback_type)
            /\ Abs(Clamp(cfg, target_rating + change) - target_rating)
                   <= Limit(feedback_type)

BaseChangeLimit(feedback_type) == cfg.base_change

\* base_change for like and dislike; 1.2 * base_change for comment.
WeightedLimit(feedback_type) ==
    IF feedback_type = "comment" THEN MulFix(cfg.base_change, (12 * SCALE) \div 10)
    ELSE cfg.base_change

\* C11 as stated: the magnitude of the change of a single accepted feedback
\* never exceeds base_change, for every rater rating and target rating in
\* [min_rating, max_rating] and every feedback type.
C11_ChangeWithinBaseChange ==
    ChangesWithin(BaseChangeLimit) /\ EventsWithin(BaseChangeLimit)

\* C11 amended: with 0 <= min_rating < max_rating and base_change >= 0, the
\* magnitude of the change of a single accepted feedback never exceeds
\* base_change for like and dislike and 1.2 * base_change for comment, for
\* every rater rating and target rating in [min_rating, max_rating].
C11_ChangeWithinWeightedBase ==
    (0 <= cfg.min_rating /\ cfg.min_rating < cfg.max_rating /\ cfg.base_change >= 0) =>
        ChangesWithin(WeightedLimit) /\ EventsWithin(WeightedLimit)

\* A process_feedback call has just moved a rating by a change that is not
\* zero and that no clamp cut.
C11_Witness ==
    /\ call.op = "process_feedback"
    /\ call.added = 1
    /\ \E u \in Users :
          /\ HasEvents(u)
          /\ IsFeedbackEvent(LastEvent(u))
          /\ LastEvent(u).t = IsoFormat(now)
          /\ LastEvent(u).change # 0
          /\ LastEvent(u).new_rating - LastEvent(u).old_rating = LastEvent(u).change

----------------------------------------------------------------------------
(* C12 *)

\* process_feedback(target_user, rater_user, a[1], a[2]) called now would be
\* accepted: the cooldown gate is open and the type is valid.
AcceptedNow(target_user, rater_user, a) ==
    a[1] \in FeedbackTypes /\ ~InCooldown(target_user, rater_user)

\* The user holds no entry in the stores S and get_rating gives neutral.
Unseen(S, u) ==
    /\ u \notin DOMAIN S.ratings
    /\ u \notin DOMAIN S.meta
    /\ \A key \in DOMAIN S.last_feedback : key[2] # u
    /\ GetRating(cfg, S, u).ret = cfg.neutral

\* C12: get_rating, anonymized_report and full_report leave the Rating
\* Store, the metadata and the Cooldown Tracker as they were, for users with
\* entries and without; a user who was never the target of an accepted
\* feedback holds no entry and get_rating returns neutral_rating for it, and
\* this stays so after any call but an accepted feedback that targets it
\* (feedback it gives as a rater, a rejected feedback, a decay sweep, an
\* appeal about it, a read).
C12_ReadsArePure ==
    \A u \in Users :
        LET g == GetRating(cfg, Cur, u)
            a == AnonymizedReport(cfg, Cur, now, u)
            f == FullReport(cfg, Cur, now, u)
        IN  /\ g.st = Cur
            /\ a.st = Cur
            /\ f.st = Cur
            /\ g.ret = get_rating(cfg, ratings, u)
            /\ a.ret.rating = g.ret
            /\ f.ret["rating"] = g.ret
            /\ u \notin DOMAIN meta =>
                  /\ Unseen(Cur, u)
                  /\ Unseen(a.st, u)
                  /\ Unseen(f.st, u)
                  /\ a.ret.received_count = 0
                  /\ \A t \in CallTimes :
                        /\ Unseen(ApplyDecay(cfg, Cur, t), u)
                        /\ \A reason \in Reasons :
                              Unseen(FileAppealTo(Cur, t, u, reason), u)
                  /\ \A target_user \in Users, rater_user \in Users,
                        x \in FeedbackArgs :
                        (target_user # u \/ ~AcceptedNow(target_user, rater_user, x))
                            => Unseen(FeedbackNow(target_user, rater_user, x).st, u)

\* A report has just been made while one user, who has rated another, holds
\* no entry of its own.
C12_Witness ==
    /\ call.op \in {"anonymized_report", "full_report"}
    /\ \E u \in Users :
          /\ u \notin DOMAIN meta
          /\ u \notin DOMAIN ratings
          /\ \E key \in DOMAIN last_feedback : key[1] = u

----------------------------------------------------------------------------
(* C13 *)

\* cooldown_days, in clock units.
CooldownSpan == UnitsPerDay * cfg.cooldown_days

\* The feedback events rater_user has in the history of target_user.
EventsFrom(target_user, rater_user) ==
    IF target_user \notin DOMAIN meta THEN {}
    ELSE {i \in 1..Len(meta[target_user].history) :
             /\ IsFeedbackEvent(meta[target_user].history[i])
             /\ meta[target_user].history[i].rater = rater_user}

\* C13: two accepted feedback events of one rater to one target are at least
\* cooldown_days apart, whatever calls were made between them; the Cooldown
\* Tracker holds, per (rater, target), the time of the pair's last accepted
\* feedback; a call is accepted only cooldown_days or more after it; and a
\* pair without an entry of its own is not held back by the entries of other
\* pairs, the reversed pair among them.
C13_CooldownSeparates ==
    \A target_user \in Users, rater_user \in Users :
        LET key == <<rater_user, target_user>>
            h == meta[target_user].history
            from == EventsFrom(target_user, rater_user)
        IN  /\ \A i \in from, j \in from :
                  i < j => FromIsoFormat(h[j].t) - FromIsoFormat(h[i].t) >= CooldownSpan
            /\ key \in DOMAIN last_feedback =>
                  /\ from # {}
                  /\ \E i \in from : h[i].t = last_feedback[key]
                  /\ \A i \in from :
                        FromIsoFormat(h[i].t) <= FromIsoFormat(last_feedback[key])
            /\ \A a \in ExploredArgs :
                  LET st == FeedbackNow(target_user, rater_user, a).st
                  IN  IF key \in DOMAIN last_feedback
                      THEN now - FromIsoFormat(last_feedback[key]) < CooldownSpan
                               => st = Cur
                      ELSE a[1] \in FeedbackTypes =>
                               /\ st.last_feedback
                                     = (key :> IsoFormat(now)) @@ last_feedback
                               /\ Len(ShownMeta(st.meta, target_user).history)
                                     = Len(ShownMeta(meta, target_user).history) + 1

\* A history holds two feedback events of one rater, exactly cooldown_days
\* apart, and the target has rated the rater in between or before.
C13_Witness ==
    \E target_user \in Users, rater_user \in Users :
        /\ target_user # rater_user
        /\ Cardinality(EventsFrom(target_user, rater_user)) >= 2
        /\ \E i, j \in EventsFrom(target_user, rater_user) :
              FromIsoFormat(meta[target_user].history[j].t)
                  - FromIsoFormat(meta[target_user].history[i].t) = CooldownSpan

----------------------------------------------------------------------------
(* C14 *)

\* h2 is h with one event, made at time t, appended: every event of h is
\* kept in its place when h has room, and the oldest is dropped and the
\* others keep their order when h is full.
IsAppendOf(h, h2, t) ==
    LET n == Len(h)
        k == Len(h2)
    IN  /\ k = MinOf(n + 1, HistoryMaxLen)
        /\ h2[k].t = IsoFormat(t)
        /\ \A i \in 1..(k - 1) : h2[i] = h[i + (n + 1 - k)]

\* The events the long run has made so far.
RunEventsMade == MinOf(RunLength, (now - RunTime(1)) \div RunStep)

\* C14: no history holds more than 500 events; an accepted feedback or a
\* decay appends one event to the history it touches, dropping the oldest
\* when the history is full and keeping the order of the others; so the
\* history of the target of the long run is the most recent min(total, 500)
\* of its events, in the order they were made.
C14_HistoryBounded ==
    /\ \A u \in DOMAIN meta : Len(meta[u].history) <= HistoryMaxLen
    /\ \A target_user \in Users, rater_user \in Users, a \in ExploredArgs :
          LET st == FeedbackNow(target_user, rater_user, a).st
          IN  \A u \in DOMAIN st.meta :
                  \/ st.meta[u].history = ShownMeta(meta, u).history
                  \/ /\ u = target_user
                     /\ IsAppendOf(ShownMeta(meta, u).history,
                                   st.meta[u].history, now)
    /\ LET st == ApplyDecay(cfg, Cur, now)
       IN  \A u \in DOMAIN st.meta :
               \/ st.meta[u].history = meta[u].history
               \/ IsAppendOf(meta[u].history, st.meta[u].history, now)
    /\ LET h == ShownMeta(meta, "alice").history
           total == RunEventsMade + EventsSinceZero(h)
           kept == Len(h) - EventsSinceZero(h)
       IN  /\ Len(h) = MinOf(total, HistoryMaxLen)
           /\ \A i \in 1..Len(h) :
                 IF i <= kept
                 THEN FromIsoFormat(h[i].t)
                          = RunTime(RunEventsMade) - (kept - i) * RunStep
                 ELSE /\ FromIsoFormat(h[i].t) >= 0
                      /\ i > 1 => FromIsoFormat(h[i - 1].t) <= FromIsoFormat(h[i].t)

\* The history of the target of the long run is full, two events were made
\* since the clock read 0, and the first event of the run is gone.
C14_Witness ==
    /\ "alice" \in DOMAIN meta
    /\ Len(meta["alice"].history) = HistoryMaxLen
    /\ EventsSinceZero(meta["alice"].history) = 2
    /\ meta["alice"].history[1].t = IsoFormat(RunTime(2))

----------------------------------------------------------------------------
(* C15 *)

\* The timestamps of a history do not decrease along it, none is later than
\* the clock, and last_updated is not earlier than the last of them.
HistoryInTimeOrder(u) ==
    LET h == meta[u].history
    IN  /\ \A i \in 1..Len(h) :
              /\ FromIsoFormat(h[i].t) <= now
              /\ i > 1 => FromIsoFormat(h[i - 1].t) <= FromIsoFormat(h[i].t)
        /\ FromIsoFormat(meta[u].last_updated) <= now
        /\ h # <<>> =>
              FromIsoFormat(h[Len(h)].t) <= FromIsoFormat(meta[u].last_updated)

\* A step keeps every metadata entry and moves no last_updated back.
LastUpdatedNotBack ==
    \A u \in DOMAIN meta :
        /\ u \in DOMAIN meta'
        /\ FromIsoFormat(meta[u].last_updated)
              <= FromIsoFormat(meta'[u].last_updated)

\* C15: under a clock that never goes back, no step of any sequence of
\* calls moves a user's last_updated back, and the timestamps of each
\* history never decrease in history order.
C15_TimestampsMonotone ==
    /\ [](\A u \in DOMAIN meta : HistoryInTimeOrder(u))
    /\ [][LastUpdatedNotBack]_vars

\* A history holds a feedback event and, later, a decay event, and
\* last_updated is the time of the later one.
C15_Witness ==
    \E u \in DOMAIN meta :
        LET h == meta[u].history
        IN  /\ Len(h) >= 2
            /\ IsFeedbackEvent(h[1])
            /\ IsDecayEvent(h[2])
            /\ FromIsoFormat(h[1].t) < FromIsoFormat(h[2].t)
            /\ meta[u].last_updated = h[2].t

----------------------------------------------------------------------------
(* C17 *)

\* C17: in every history each event's old_rating is the new_rating of the
\* event before it, the new_rating of the last event is the rating stored
\* for the user, the first event's old_rating is neutral_rating as long as
\* nothing was evicted (the history has not filled, or still holds the
\* first event of the long run), and the users with a stored rating are
\* the users with metadata.
C17_HistoryChained ==
    /\ DOMAIN ratings = DOMAIN meta
    /\ \A u \in DOMAIN meta :
          LET h == meta[u].history
          IN  /\ h # <<>>
              /\ \A i \in 2..Len(h) : h[i].old_rating = h[i - 1].new_rating
              /\ h[Len(h)].new_rating = ratings[u]
              /\ (Len(h) < HistoryMaxLen \/ h[1].t = IsoFormat(RunTime(1)))
                    => h[1].old_rating = cfg.neutral

\* A full history has lost its first events: its first old_rating is not
\* neutral_rating any more, and its chain runs on to the stored rating
\* through an event made since the clock read 0.
C17_Witness ==
    \E u \in DOMAIN meta :
        LET h == meta[u].history
        IN  /\ Len(h) = HistoryMaxLen
            /\ h[1].old_rating # cfg.neutral
            /\ FromIsoFormat(h[Len(h)].t) >= 0
            /\ h[Len(h)].new_rating # h[Len(h)].old_rating
            /\ ratings[u] = h[Len(h)].new_rating

----------------------------------------------------------------------------
(* C18 *)

\* The feedback events of the given polarity in a history.
EventsOfPolarity(h, polarity) ==
    {i \in 1..Len(h) : IsFeedbackEvent(h[i]) /\ h[i].polarity = polarity}

\* The counters of a user whose history has lost no event count its
\* feedback events: all of them, the positive ones, the negative ones.
CountersMatchHistory(u) ==
    LET h == meta[u].history
        m == meta[u]
    IN  Len(h) < HistoryMaxLen =>
            /\ m.received_count
                  = Cardinality({i \in 1..Len(h) : IsFeedbackEvent(h[i])})
            /\ m.positive_count = Cardinality(EventsOfPolarity(h, "positive"))
            /\ m.negative_count = Cardinality(EventsOfPolarity(h, "negative"))
            /\ m.positive_count + m.negative_count <= m.received_count
            /\ m.received_count - m.positive_count - m.negative_count
                  = Cardinality(EventsOfPolarity(h, "neutral"))

\* A step keeps every metadata entry and takes nothing off a counter.
CountersNotDown ==
    \A u \in DOMAIN meta :
        /\ u \in DOMAIN meta'
        /\ meta[u].received_count <= meta'[u].received_count
        /\ meta[u].positive_count <= meta'[u].positive_count
        /\ meta[u].negative_count <= meta'[u].negative_count

\* C18: for every user, received_count is the number of accepted feedback
\* events that targeted it (decay events not counted), positive_count +
\* negative_count <= received_count, the difference is the number of
\* accepted feedback events of neutral polarity, and no step takes anything
\* off a counter.
C18_CountersCountFeedback ==
    /\ [](\A u \in DOMAIN meta : CountersMatchHistory(u))
    /\ [][CountersNotDown]_vars

\* A user has received one feedback, of neutral polarity, and one decay.
C18_Witness ==
    \E u \in DOMAIN meta :
        /\ Len(meta[u].history) = 2
        /\ \E i \in 1..2 : IsDecayEvent(meta[u].history[i])
        /\ meta[u].received_count = 1
        /\ meta[u].positive_count + meta[u].negative_count = 0

----------------------------------------------------------------------------
(* C19 *)

\* A feedback of the given polarity took the rating from old to new in the
\* right direction: up for positive, down for negative, and not at all only
\* when old is the bound the clamp holds it at.
MovedAsPolarity(polarity, old, new) ==
    /\ polarity = "positive" =>
          /\ new >= old
          /\ new = old => old = cfg.max_rating
    /\ polarity = "negative" =>
          /\ new <= old
          /\ new = old => old = cfg.min_rating

\* The (feedback_type, comment_text) pairs with a valid type.
ValidArgs == {a \in FeedbackArgs : a[1] \in FeedbackTypes}

\* C19: with base_change > 0 and 0 <= min_rating, an accepted feedback of
\* positive polarity (like, or a positive comment) never lowers the target's
\* rating and one of negative polarity (dislike, or a negative comment)
\* never raises it, and the change is nonzero unless the clamp at max_rating
\* or min_rating absorbs it: for every feedback event of every history, and
\* for every rater rating and target rating in [min_rating, max_rating]
\* (computed once, for the system as constructed).
C19_DirectionFollowsPolarity ==
    (cfg.base_change > 0 /\ 0 <= cfg.min_rating) =>
        /\ \A u \in DOMAIN meta :
              \A i \in 1..Len(meta[u].history) :
                  LET e == meta[u].history[i]
                  IN  IsFeedbackEvent(e) =>
                          MovedAsPolarity(e.polarity, e.old_rating, e.new_rating)
        /\ call.op = "init" =>
              \A rater_rating \in RatingGrid, target_rating \in RatingGrid,
                 a \in ValidArgs :
                  LET polarity == Polarity(a[1], a[2])
                      direction == Direction(polarity)
                      change == Change(cfg, rater_rating, target_rating,
                                       a[1], direction)
                  IN  /\ polarity = "positive" => change > 0
                      /\ polarity = "negative" => change < 0
                      /\ MovedAsPolarity(polarity, target_rating,
                                         Clamp(cfg, target_rating + change))

\* A dislike has just met a rating at min_rating: its change is negative
\* and the clamp has absorbed it.
C19_Witness ==
    /\ call.op = "process_feedback"
    /\ \E u \in Users :
          /\ HasEvents(u)
          /\ IsFeedbackEvent(LastEvent(u))
          /\ LastEvent(u).polarity = "negative"
          /\ LastEvent(u).change < 0
          /\ LastEvent(u).old_rating = cfg.min_rating
          /\ LastEvent(u).new_rating = cfg.min_rating
          /\ ratings[u] = cfg.min_rating

----------------------------------------------------------------------------
(* C20 *)

\* The entry a store f holds for x, or none.
EntryOf(f, x) == IF x \in DOMAIN f THEN <<f[x]>> ELSE <<>>

\* C20: an accepted process_feedback(target, rater, ...) writes the target's
\* rating, the target's metadata and the cooldown entry of (rater, target),
\* and nothing else: every other user's rating and metadata are as they
\* were (the rater, when it is not the target, gains no entry), every other
\* cooldown entry is as it was, and so is the Appeal Log.
C20_AcceptedFrame ==
    \A target_user \in Users, rater_user \in Users, a \in ValidArgs :
        AcceptedNow(target_user, rater_user, a) =>
            LET st == FeedbackNow(target_user, rater_user, a).st
                key == <<rater_user, target_user>>
            IN  /\ \A u \in Users \ {target_user} :
                      /\ EntryOf(st.ratings, u) = EntryOf(ratings, u)
                      /\ EntryOf(st.meta, u) = EntryOf(meta, u)
                /\ DOMAIN st.ratings = DOMAIN ratings \cup {target_user}
                /\ DOMAIN st.meta = DOMAIN meta \cup {target_user}
                /\ DOMAIN st.last_feedback = DOMAIN last_feedback \cup {key}
                /\ \A k \in DOMAIN last_feedback \ {key} :
                      st.last_feedback[k] = last_feedback[k]
                /\ st.last_feedback[key] = IsoFormat(now)
                /\ st.meta[target_user].last_updated = IsoFormat(now)
                /\ st.appeal_log = appeal_log

\* A feedback has just been accepted while an appeal is on file, and its
\* rater, who is not the target, still holds no entry.
C20_Witness ==
    /\ call.op = "process_feedback"
    /\ call.added = 1
    /\ appeal_log # <<>>
    /\ \E key \in DOMAIN last_feedback :
          /\ last_feedback[key] = IsoFormat(now)
          /\ key[1] # key[2]
          /\ key[1] \notin DOMAIN meta
          /\ key[1] \notin DOMAIN ratings
          /\ key[2] \in DOMAIN meta

----------------------------------------------------------------------------
(* C16 *)

\* Every thread has returned or raised, and given its lock back.
AllDone == \A p \in DOMAIN threads : threads[p].pc = "done"

\* The users the threads' calls name.
ThreadUsers ==
    {threads[p].target_user : p \in DOMAIN threads}
        \cup {threads[p].rater_user : p \in DOMAIN threads}

\* The threads whose feedback to target_user was accepted.
AcceptedThreads(target_user) ==
    {p \in DOMAIN threads : /\ threads[p].target_user = target_user
                            /\ threads[p].outcome = "accepted"}

\* The orders the threads' calls can be made in, one after the other.
Orders ==
    {o \in [1..Cardinality(DOMAIN threads) -> DOMAIN threads] :
        \A i, j \in DOMAIN o : o[i] = o[j] => i = j}

RECURSIVE SequentialRun(_, _, _)
\* The stores after the calls o[i], o[i+1], ... made in this order on S.
SequentialRun(S, o, i) ==
    IF i > Cardinality(DOMAIN o) THEN S
    ELSE SequentialRun(ProcessFeedback(cfg, S, now, threads[o[i]].target_user,
                                       threads[o[i]].rater_user,
                                       threads[o[i]].feedback_type,
                                       threads[o[i]].comment_text).st,
                       o, i + 1)

\* The stores equal those some sequential order of the calls leaves.
Serializable == \E o \in Orders : Cur = SequentialRun(EmptyStores, o, 1)

\* The calls were all made at one time, inside one cooldown: a rater has at
\* most one event in a target's history, and at most one of a pair's calls
\* was accepted.
GateNotBypassed ==
    \A target_user \in ThreadUsers, rater_user \in ThreadUsers :
        /\ Cardinality(EventsFrom(target_user, rater_user)) <= 1
        /\ Cardinality({p \in AcceptedThreads(target_user) :
                           threads[p].rater_user = rater_user}) <= 1

\* Every accepted call left its event and its count, each event starts from
\* the rating the one before it left, and the rating is the last event's.
NoUpdateLost ==
    \A u \in ThreadUsers :
        IF AcceptedThreads(u) = {}
        THEN u \notin DOMAIN ratings /\ u \notin DOMAIN meta
        ELSE LET h == meta[u].history
             IN  /\ Len(h) = Cardinality(AcceptedThreads(u))
                 /\ meta[u].received_count = Len(h)
                 /\ h[1].old_rating = cfg.neutral
                 /\ \A i \in 2..Len(h) : h[i].old_rating = h[i - 1].new_rating
                 /\ ratings[u] = h[Len(h)].new_rating
                 /\ \A p \in AcceptedThreads(u) :
                        \E i \in 1..Len(h) :
                            /\ h[i].rater = threads[p].rater_user
                            /\ h[i].new_rating = threads[p].ret
                            /\ <<threads[p].rater_user, u>> \in DOMAIN last_feedback
                            /\ last_feedback[<<threads[p].rater_user, u>>] = h[i].t

\* No call reads, as its rater's rating, a rating that a call under another
\* lock writes.
NoRaterIsOtherTarget ==
    \A p, q \in DOMAIN threads :
        threads[p].target_user # threads[q].target_user
            => threads[p].rater_user # threads[q].target_user

====
